---- MODULE Spec2Model ----
(***************************************************************************)
(* A model of LabVIEW_python_ploter.py: the PlotEngine class (plot_line,   *)
(* plot_multi_line, plot_boxplot_regression, plot_colormap and the helpers *)
(* _apply_layout and _get_line_style) and the four call_* wrappers.        *)
(*                                                                         *)
(* One action is one call.  The state kept between calls is the engine's   *)
(* style, the figures pyplot still holds open and the files written; the   *)
(* remaining variables record what the last call handed to the plotting    *)
(* library, so that the properties can speak about it.                     *)
(***************************************************************************)
EXTENDS Integers, Sequences, FiniteSets, TLC

(***************************************************************************)
(* Python values.  Every value has the same shape so that any two can be   *)
(* compared: k is the type, s a str's text, n a number's or bool's value,  *)
(* items the entries of a list (key "") or of a dict (in insertion order). *)
(***************************************************************************)
PyNone == [k |-> "null", s |-> "", n |-> 0, items |-> <<>>]
PyStr(str) == [k |-> "str", s |-> str, n |-> 0, items |-> <<>>]
PyNum(num) == [k |-> "num", s |-> "", n |-> num, items |-> <<>>]
PyBool(b) == [k |-> "bool", s |-> "", n |-> IF b THEN 1 ELSE 0, items |-> <<>>]
PyList(vals) == [k |-> "list", s |-> "", n |-> 0,
                 items |-> [i \in 1..Len(vals) |-> [key |-> "", val |-> vals[i]]]]
PyDict(entries) == [k |-> "dict", s |-> "", n |-> 0, items |-> entries]
\* A float literal of the source that is no integer, kept as its text.
PyFloat(text) == [k |-> "float", s |-> text, n |-> 0, items |-> <<>>]
EmptyDict == PyDict(<<>>)

\* bool(v): None, False, 0, "" and the empty list or dict are falsy.
Truthy(v) ==
    CASE v.k = "null" -> FALSE
      [] v.k = "bool" -> v.n # 0
      [] v.k = "num" -> v.n # 0
      [] v.k = "str" -> v.s # ""
      [] v.k = "float" -> TRUE
      [] OTHER -> Len(v.items) > 0

\* len(v) of a str, list or dict; the strings of the model are atomic, so a
\* non-empty str has length 1.
PyLen(v) == IF v.k = "str" THEN (IF v.s = "" THEN 0 ELSE 1) ELSE Len(v.items)
HasLen(v) == v.k \in {"str", "list", "dict"}

\* key in d, d[key], d.get(key, default) and d[key] = val on a dict.
RECURSIVE FindKey(_, _, _)
FindKey(entries, key, i) ==
    IF i = 0 THEN 0
    ELSE IF entries[i].key = key THEN i ELSE FindKey(entries, key, i - 1)
DictHas(d, key) == FindKey(d.items, key, Len(d.items)) # 0
DictItem(d, key) == d.items[FindKey(d.items, key, Len(d.items))].val
DictGet(d, key, default) == IF DictHas(d, key) THEN DictItem(d, key) ELSE default
DictSet(d, key, val) ==
    LET i == FindKey(d.items, key, Len(d.items))
    IN  IF i = 0 THEN PyDict(Append(d.items, [key |-> key, val |-> val]))
        ELSE PyDict([d.items EXCEPT ![i] = [key |-> key, val |-> val]])

(***************************************************************************)
(* JSON text, as the sequence of its tokens.                               *)
(***************************************************************************)
Sym(c) == [t |-> c, s |-> "", n |-> 0]
StrTok(str) == [t |-> "str", s |-> str, n |-> 0]
NumTok(num) == [t |-> "num", s |-> "", n |-> num]
LBrace == Sym("{")
RBrace == Sym("}")
LBracket == Sym("[")
RBracket == Sym("]")
Colon == Sym(":")
Comma == Sym(",")
TrueTok == Sym("true")
FalseTok == Sym("false")
NullTok == Sym("null")

NoParse == [ok |-> FALSE, val |-> PyNone, rest |-> <<>>]
Parsed(v, rest) == [ok |-> TRUE, val |-> v, rest |-> rest]

\* json's decoder: one value at the head of toks, and what follows it.
RECURSIVE ParseValue(_), ParseMembers(_, _), ParseElements(_, _)
ParseValue(toks) ==
    IF toks = <<>> THEN NoParse
    ELSE LET h == Head(toks)
             r == Tail(toks)
         IN  CASE h.t = "str" -> Parsed(PyStr(h.s), r)
               [] h.t = "num" -> Parsed(PyNum(h.n), r)
               [] h.t = "true" -> Parsed(PyBool(TRUE), r)
               [] h.t = "false" -> Parsed(PyBool(FALSE), r)
               [] h.t = "null" -> Parsed(PyNone, r)
               [] h.t = "{" ->
                    IF r # <<>> /\ Head(r).t = "}" THEN Parsed(EmptyDict, Tail(r))
                    ELSE ParseMembers(r, EmptyDict)
               [] h.t = "[" ->
                    IF r # <<>> /\ Head(r).t = "]" THEN Parsed(PyList(<<>>), Tail(r))
                    ELSE ParseElements(r, <<>>)
               [] OTHER -> NoParse

\* "key": value, then "," and another member, or "}".  A repeated key keeps
\* its first place and takes the last value, as a Python dict does.
ParseMembers(toks, acc) ==
    IF Len(toks) < 2 \/ toks[1].t # "str" \/ toks[2].t # ":" THEN NoParse
    ELSE LET v == ParseValue(SubSeq(toks, 3, Len(toks)))
         IN  IF ~v.ok \/ v.rest = <<>> THEN NoParse
             ELSE LET d == DictSet(acc, toks[1].s, v.val)
                      sep == Head(v.rest)
                  IN  CASE sep.t = "}" -> Parsed(d, Tail(v.rest))
                        [] sep.t = "," -> ParseMembers(Tail(v.rest), d)
                        [] OTHER -> NoParse

ParseElements(toks, acc) ==
    LET v == ParseValue(toks)
    IN  IF ~v.ok \/ v.rest = <<>> THEN NoParse
        ELSE LET vals == Append(acc, v.val)
                 sep == Head(v.rest)
             IN  CASE sep.t = "]" -> Parsed(PyList(vals), Tail(v.rest))
                   [] sep.t = "," -> ParseElements(Tail(v.rest), vals)
                   [] OTHER -> NoParse

\* The argument given as json_config: a str (its tokens) or None.
JsonText(toks) == [isStr |-> TRUE, toks |-> toks]
JsonNone == [isStr |-> FALSE, toks |-> <<>>]

\* json.loads(json_config): the value, or the exception raised.  Text that
\* is no single JSON value raises JSONDecodeError, a ValueError; None raises
\* TypeError.
json_loads(json_config) ==
    IF ~json_config.isStr THEN [exc |-> "TypeError", val |-> PyNone]
    ELSE LET p == ParseValue(json_config.toks)
         IN  IF p.ok /\ p.rest = <<>> THEN [exc |-> "", val |-> p.val]
             ELSE [exc |-> "ValueError", val |-> PyNone]

\* try: config = json.loads(json_config)
\* except (ValueError, TypeError): config = {}
LoadConfigNoCatch(json_config) ==
    LET r == json_loads(json_config)
    IN  [exc |-> r.exc, config |-> r.val]

LoadConfig(json_config) ==
    LET r == json_loads(json_config)
    IN  IF r.exc \in {"ValueError", "TypeError"}
        THEN [exc |-> "", config |-> EmptyDict]
        ELSE [exc |-> r.exc, config |-> r.val]

(***************************************************************************)
(* What one call does: the value returned or the exception that left it,   *)
(* the figures it opened and closed, whether savefig wrote the file, the   *)
(* config mapping it loaded, and each call it made on the axes and the     *)
(* figure, with the arguments the plotting library received.               *)
(***************************************************************************)
Fresh ==
    [ret |-> "", exc |-> "", opened |-> 0, closed |-> 0, saved |-> FALSE,
     config |-> PyNone,
     plots |-> <<>>,      \* ax.plot(x, y, label=..., **style), in call order
     layout |-> <<>>,     \* ax.set_title, set_xlabel, set_ylabel, set_ylim, set_xlim, grid
     figsize |-> <<>>,    \* fig.set_figheight, fig.set_figwidth
     legend |-> <<>>,     \* ax.legend(loc=...)
     box |-> <<>>,        \* ax.boxplot(groups, positions=..., boxprops=..., widths=...)
     reg |-> <<>>,        \* the regression's flat_x, flat_y, ss_res, ss_tot, r_squared
     regline |-> <<>>,    \* ax.plot(x_range, y_range, **reg_style)
     text |-> <<>>,       \* ax.text(..., fontsize=...)
     image |-> <<>>,      \* ax.imshow(matrix, cmap=..., extent=..., origin=...)
     colorbar |-> <<>>]   \* fig.colorbar(im, label=...)

Raise(o, e) == [o EXCEPT !.exc = e]
Return(o, r) == [o EXCEPT !.ret = r]
Running(o) == o.exc = "" /\ o.ret = ""

\* fig, ax = plt.subplots()
Subplots(o) == [o EXCEPT !.opened = @ + 1]
\* plt.close(fig)
CloseFig(o) == [o EXCEPT !.closed = @ + 1]

\* The paths savefig can write to; any other path raises OSError.
BadPath == "/no/such/dir/out.png"
\* fig.savefig(save_path)
Savefig(o, save_path) ==
    IF save_path = BadPath THEN Raise(o, "OSError") ELSE [o EXCEPT !.saved = TRUE]

(***************************************************************************)
(* PlotEngine._get_line_style                                              *)
(***************************************************************************)
StyleKeys == <<"color", "linestyle", "linewidth", "marker", "alpha">>

\* key in config, for a config that need not be a dict: membership in a
\* list, containment in a str (the model's strings are atomic: only the
\* whole string is contained), TypeError for a value that is no container.
ConfigIn(config, key) ==
    CASE config.k = "dict" -> [exc |-> "", b |-> DictHas(config, key)]
      [] config.k = "list" ->
            [exc |-> "", b |-> \E i \in 1..Len(config.items) : config.items[i].val = PyStr(key)]
      [] config.k = "str" -> [exc |-> "", b |-> config.s = key]
      [] OTHER -> [exc |-> "TypeError", b |-> FALSE]

\* if val is not None and val != "": style[key] = val
KeepsStyleValue(val) == val # PyNone /\ val # PyStr("")

\* The loop over keys from the i-th on; style is the dict built so far.
RECURSIVE LineStyleFrom(_, _, _, _)
LineStyleFrom(config, prefix, i, style) ==
    IF i > Len(StyleKeys) THEN [exc |-> "", style |-> style]
    ELSE LET key == StyleKeys[i]
             full_key == prefix \o key
             has == ConfigIn(config, full_key)
         IN  IF has.exc # "" THEN [exc |-> has.exc, style |-> style]
             ELSE IF ~has.b THEN LineStyleFrom(config, prefix, i + 1, style)
             ELSE IF config.k # "dict" THEN [exc |-> "TypeError", style |-> style]
             ELSE LET val == DictItem(config, full_key)
                  IN  LineStyleFrom(config, prefix, i + 1,
                          IF KeepsStyleValue(val)
                          THEN Append(style, [key |-> key, val |-> val])
                          ELSE style)

get_line_style(config, prefix) == LineStyleFrom(config, prefix, 1, <<>>)

(***************************************************************************)
(* PlotEngine._apply_layout                                                *)
(***************************************************************************)
SetLayout(o, key, val) == [o EXCEPT !.layout = Append(@, [key |-> key, val |-> val])]

\* if "title" in config: ax.set_title(config["title"])   (also xlabel, ylabel, grid)
LayoutIfPresent(o, config, key) ==
    IF ~Running(o) THEN o
    ELSE LET has == ConfigIn(config, key)
         IN  IF has.exc # "" THEN Raise(o, has.exc)
             ELSE IF ~has.b THEN o
             ELSE IF config.k # "dict" THEN Raise(o, "TypeError")
             ELSE SetLayout(o, key, DictItem(config, key))

\* if "ylim" in config and len(config["ylim"]) > 0: ax.set_ylim(config["ylim"])
LayoutLimit(o, config, key) ==
    IF ~Running(o) THEN o
    ELSE LET has == ConfigIn(config, key)
         IN  IF has.exc # "" THEN Raise(o, has.exc)
             ELSE IF ~has.b THEN o
             ELSE IF config.k # "dict" THEN Raise(o, "TypeError")
             ELSE LET val == DictItem(config, key)
                  IN  IF ~HasLen(val) THEN Raise(o, "TypeError")
                      ELSE IF PyLen(val) > 0 THEN SetLayout(o, key, val)
                      ELSE o

\* v > 0 for a config value: bools and numbers compare, anything else raises.
IsNumber(v) == v.k \in {"num", "bool"}

\* if "figsize" in config and config["figsize"]["width"] > 0
\*                        and config["figsize"]["height"] > 0: ...
LayoutFigsize(o, config) ==
    IF ~Running(o) THEN o
    ELSE LET has == ConfigIn(config, "figsize")
         IN  IF has.exc # "" THEN Raise(o, has.exc)
             ELSE IF ~has.b THEN o
             ELSE IF config.k # "dict" THEN Raise(o, "TypeError")
             ELSE LET fs == DictItem(config, "figsize")
                  IN  IF fs.k # "dict" THEN Raise(o, "TypeError")
                      ELSE IF ~DictHas(fs, "width") THEN Raise(o, "KeyError")
                      ELSE IF ~IsNumber(DictItem(fs, "width")) THEN Raise(o, "TypeError")
                      ELSE IF ~(DictItem(fs, "width").n > 0) THEN o
                      ELSE IF ~DictHas(fs, "height") THEN Raise(o, "KeyError")
                      ELSE IF ~IsNumber(DictItem(fs, "height")) THEN Raise(o, "TypeError")
                      ELSE IF ~(DictItem(fs, "height").n > 0) THEN o
                      ELSE [o EXCEPT !.figsize =
                               <<[key |-> "height", val |-> DictItem(fs, "height")],
                                 [key |-> "width", val |-> DictItem(fs, "width")]>>]

\* The locations ax.legend accepts by name; any other str raises ValueError.
LegendLocs ==
    {"best", "upper right", "upper left", "lower left", "lower right", "right",
     "center left", "center right", "lower center", "upper center", "center"}

\* if config.get("show_legend", False): ax.legend(loc=config.get("legend_loc", "best"))
AxLegend(o, loc) ==
    IF loc.k = "str" /\ loc.s \notin LegendLocs
    THEN Raise([o EXCEPT !.legend = Append(@, loc)], "ValueError")
    ELSE [o EXCEPT !.legend = Append(@, loc)]

LayoutLegend(o, config) ==
    IF ~Running(o) THEN o
    ELSE IF config.k # "dict" THEN Raise(o, "AttributeError")
    ELSE IF ~Truthy(DictGet(config, "show_legend", PyBool(FALSE))) THEN o
    ELSE AxLegend(o, DictGet(config, "legend_loc", PyStr("best")))

apply_layout(o, config) ==
    LayoutLegend(
      LayoutFigsize(
        LayoutIfPresent(
          LayoutLimit(
            LayoutLimit(
              LayoutIfPresent(
                LayoutIfPresent(
                  LayoutIfPresent(o, config, "title"),
                  config, "xlabel"),
                config, "ylabel"),
              config, "ylim"),
            config, "xlim"),
          config, "grid"),
        config),
      config)

\* self._apply_layout(ax, fig, config); fig.savefig(save_path); plt.close(fig)
\* return "Success"
Save(o, save_path) == IF Running(o) THEN Savefig(o, save_path) ELSE o
Succeed(o) == IF Running(o) THEN Return(CloseFig(o), "Success") ELSE o

Finish(o, config, save_path) == Succeed(Save(apply_layout(o, config), save_path))

(***************************************************************************)
(* PlotEngine.plot_line and PlotEngine.plot_multi_line                     *)
(***************************************************************************)
NoLabel == PyNone

\* ax.plot(x, y, label=lbl, **style): x and y must have the same length.
AxPlot(o, xs, ys, lbl, style) ==
    IF Len(xs) # Len(ys) THEN Raise(o, "ValueError")
    ELSE [o EXCEPT !.plots = Append(@, [x |-> xs, y |-> ys, label |-> lbl, style |-> style])]

\* ax.plot(x_data, y_data, **style_args), then the layout and the file.
LineWithStyle(o, config, st, x_data, y_data, save_path) ==
    IF st.exc # "" THEN Raise(o, st.exc)
    ELSE Finish(AxPlot(o, x_data, y_data, NoLabel, st.style), config, save_path)

\* The body after the try/except, with the config it produced.
plot_line_with(loaded, x_data, y_data, save_path) ==
    IF loaded.exc # "" THEN Raise(Fresh, loaded.exc)
    ELSE LineWithStyle([Subplots(Fresh) EXCEPT !.config = loaded.config], loaded.config,
                       get_line_style(loaded.config, ""), x_data, y_data, save_path)

plot_line(x_data, y_data, json_config, save_path) ==
    plot_line_with(LoadConfig(json_config), x_data, y_data, save_path)

\* lbl = labels[i] if i < len(labels) else f"Line {i+1}"   (i counts from 0)
GeneratedLabelOffByOne(i) == PyStr("Line " \o ToString(i))
GeneratedLabel(i) == PyStr("Line " \o ToString(i + 1))

RowLabel(labels, i) ==
    IF ~HasLen(labels) THEN [exc |-> "TypeError", lbl |-> NoLabel]
    ELSE IF i < PyLen(labels)
    THEN CASE labels.k = "list" -> [exc |-> "", lbl |-> labels.items[i + 1].val]
           [] labels.k = "str" -> [exc |-> "", lbl |-> labels]
           [] OTHER -> [exc |-> "KeyError", lbl |-> NoLabel]
    ELSE [exc |-> "", lbl |-> GeneratedLabel(i)]

\* for i, y_row in enumerate(y_data_2d): ...
RECURSIVE PlotRows(_, _, _, _, _, _)
PlotRows(o, x_data, y_data_2d, labels, base_style, i) ==
    IF ~Running(o) \/ i >= Len(y_data_2d) THEN o
    ELSE LET l == RowLabel(labels, i)
         IN  IF l.exc # "" THEN Raise(o, l.exc)
             ELSE PlotRows(AxPlot(o, x_data, y_data_2d[i + 1], l.lbl, base_style),
                           x_data, y_data_2d, labels, base_style, i + 1)

\* if config.get("show_legend", True): config["show_legend"] = True
ForceLegendDefaultOff(config) ==
    IF Truthy(DictGet(config, "show_legend", PyBool(FALSE)))
    THEN DictSet(config, "show_legend", PyBool(TRUE))
    ELSE config
ForceLegend(config) ==
    IF Truthy(DictGet(config, "show_legend", PyBool(TRUE)))
    THEN DictSet(config, "show_legend", PyBool(TRUE))
    ELSE config

RowsWithStyle(o, config, st, x_data, y_data_2d, save_path) ==
    IF st.exc # "" THEN Raise(o, st.exc)
    ELSE Finish(PlotRows(o, x_data, y_data_2d,
                         DictGet(config, "labels", PyList(<<>>)), st.style, 0),
                ForceLegend(config), save_path)

MultiLineBody(o, config, x_data, y_data_2d, save_path) ==
    IF config.k # "dict" THEN Raise(o, "AttributeError")
    ELSE RowsWithStyle(o, config, get_line_style(config, ""), x_data, y_data_2d, save_path)

plot_multi_line_with(loaded, x_data, y_data_2d, save_path) ==
    IF loaded.exc # "" THEN Raise(Fresh, loaded.exc)
    ELSE MultiLineBody([Subplots(Fresh) EXCEPT !.config = loaded.config], loaded.config,
                       x_data, y_data_2d, save_path)

plot_multi_line(x_data, y_data_2d, json_config, save_path) ==
    plot_multi_line_with(LoadConfig(json_config), x_data, y_data_2d, save_path)

(***************************************************************************)
(* Floating point.  The data are Python floats; a finite one is m * 2^e    *)
(* with m odd (or m = 0, e = 0).  Every operation rounds its exact result  *)
(* to MantBits significant bits, to nearest and ties to even, as IEEE 754  *)
(* does with 53 bits; the exponent is not bounded.                         *)
(***************************************************************************)
MantBits == 3

NaN == [c |-> "nan", m |-> 0, e |-> 0]
Inf == [c |-> "inf", m |-> 0, e |-> 0]
NegInf == [c |-> "ninf", m |-> 0, e |-> 0]
Zero == [c |-> "fin", m |-> 0, e |-> 0]

RECURSIVE Pow2(_)
Pow2(k) == IF k = 0 THEN 1 ELSE 2 * Pow2(k - 1)

Abs(i) == IF i < 0 THEN -i ELSE i
Min2(a, b) == IF a <= b THEN a ELSE b

\* m * 2^e with the trailing zero bits of m moved into e.
RECURSIVE Normal(_, _)
Normal(m, e) ==
    IF m = 0 THEN Zero
    ELSE IF m % 2 = 0 THEN Normal(m \div 2, e + 1)
    ELSE [c |-> "fin", m |-> m, e |-> e]

\* (a / d) * 2^e scaled so that 2^(MantBits-1) <= a / d < 2^MantBits.
RECURSIVE Scaled(_, _, _)
Scaled(a, d, e) ==
    IF a < Pow2(MantBits - 1) * d THEN Scaled(2 * a, d, e - 1)
    ELSE IF a >= Pow2(MantBits) * d THEN Scaled(a, 2 * d, e + 1)
    ELSE [a |-> a, d |-> d, e |-> e]

\* The float nearest to (num / den) * 2^e, den > 0; ties to the even mantissa.
\* sc is |num| / den scaled to a mantissa's range.
Rounded(sc, negative) ==
    LET q == sc.a \div sc.d
        r == sc.a % sc.d
        up == 2 * r > sc.d \/ (2 * r = sc.d /\ q % 2 = 1)
        mant == IF up THEN q + 1 ELSE q
    IN  Normal(IF negative THEN -mant ELSE mant, sc.e)

Round(num, den, e) ==
    IF num = 0 THEN Zero ELSE Rounded(Scaled(Abs(num), den, e), num < 0)

FromInt(i) == Round(i, 1, 0)
IsFinite(a) == a.c = "fin"
\* np.isnan(val)
np_isnan(a) == a.c = "nan"
FNeg(a) ==
    CASE a.c = "fin" -> [a EXCEPT !.m = -a.m]
      [] a.c = "inf" -> NegInf
      [] a.c = "ninf" -> Inf
      [] OTHER -> NaN

FAdd(a, b) ==
    CASE a.c = "nan" \/ b.c = "nan" -> NaN
      [] a.c = "fin" /\ b.c = "fin" ->
            LET e == Min2(a.e, b.e)
            IN  Round(a.m * Pow2(a.e - e) + b.m * Pow2(b.e - e), 1, e)
      [] a.c = "fin" -> b
      [] b.c = "fin" -> a
      [] OTHER -> IF a.c = b.c THEN a ELSE NaN
FSub(a, b) == FAdd(a, FNeg(b))

Sign(a) == CASE a.c = "inf" -> 1 [] a.c = "ninf" -> -1
             [] OTHER -> IF a.m > 0 THEN 1 ELSE IF a.m < 0 THEN -1 ELSE 0
Signed(sgn) == IF sgn > 0 THEN Inf ELSE IF sgn < 0 THEN NegInf ELSE NaN

FMul(a, b) ==
    CASE a.c = "nan" \/ b.c = "nan" -> NaN
      [] a.c = "fin" /\ b.c = "fin" -> Round(a.m * b.m, 1, a.e + b.e)
      [] OTHER -> Signed(Sign(a) * Sign(b))

\* numpy's division: x / 0 is an infinity (with a warning), 0 / 0 is NaN.
FDiv(a, b) ==
    CASE a.c = "nan" \/ b.c = "nan" -> NaN
      [] a.c = "fin" /\ b.c = "fin" ->
            IF b.m = 0 THEN Signed(Sign(a))
            ELSE Round(IF b.m < 0 THEN -a.m ELSE a.m, Abs(b.m), a.e - b.e)
      [] a.c = "fin" -> Zero
      [] b.c = "fin" -> Signed(Sign(a) * (IF b.m < 0 THEN -1 ELSE 1))
      [] OTHER -> NaN

\* a < b for finite floats.
FLess(a, b) ==
    LET e == Min2(a.e, b.e)
    IN  a.m * Pow2(a.e - e) < b.m * Pow2(b.e - e)

\* np.sum(v): the elements added in order, each sum rounded.
RECURSIVE SumFrom(_, _, _)
SumFrom(v, i, acc) == IF i > Len(v) THEN acc ELSE SumFrom(v, i + 1, FAdd(acc, v[i]))
np_sum(v) == SumFrom(v, 1, Zero)

\* np.mean(v): the rounded sum divided by the count.
np_mean(v) == FDiv(np_sum(v), FromInt(Len(v)))

\* min(v), max(v) of finite floats.
RECURSIVE MinFrom(_, _, _), MaxFrom(_, _, _)
MinFrom(v, i, acc) ==
    IF i > Len(v) THEN acc ELSE MinFrom(v, i + 1, IF FLess(v[i], acc) THEN v[i] ELSE acc)
MaxFrom(v, i, acc) ==
    IF i > Len(v) THEN acc ELSE MaxFrom(v, i + 1, IF FLess(acc, v[i]) THEN v[i] ELSE acc)

(***************************************************************************)
(* np.polyfit(flat_x, flat_y, 1): the least-squares line.  With the points *)
(* as integer multiples X * 2^sx and Y * 2^sy,                             *)
(*    slope = A / D,  intercept = (sum Y * D - A * sum X) / (n * D)        *)
(* where A = n sum XY - sum X sum Y and D = n sum XX - (sum X)^2; the      *)
(* coefficients are the floats nearest to these.  When every x is the same *)
(* non-zero x0 (D = 0) the fit is rank-deficient and numpy returns, with a *)
(* RankWarning, the minimum-norm solution of its column-scaled system:     *)
(* slope = mean / (2 x0), intercept = mean / 2.  When every x is 0 the     *)
(* scaling divides 0 by 0 and lstsq raises LinAlgError.  With a non-finite *)
(* y the LAPACK driver either fails to converge (LinAlgError) or returns   *)
(* NaN coefficients; lapack says which.                                    *)
(***************************************************************************)
RECURSIVE MinExp(_, _, _), IntSum(_, _, _, _)
MinExp(v, i, acc) == IF i > Len(v) THEN acc ELSE MinExp(v, i + 1, Min2(acc, v[i].e))
IntsAt(v, s) == [s |-> s, at |-> [i \in 1..Len(v) |-> v[i].m * Pow2(v[i].e - s)]]
Ints(v) == IntsAt(v, MinExp(v, 1, v[1].e))

\* sum of a[i] * b[i]
IntSum(a, b, i, acc) == IF i > Len(a) THEN acc ELSE IntSum(a, b, i + 1, acc + a[i] * b[i])
Ones(n) == [i \in 1..n |-> 1]

\* The coefficients from the sums; ex and ey are the exponents sx and sy above.
Coefficients(n, sx, sy, A, D, ex, ey) ==
    IF D # 0
    THEN [exc |-> "", slope |-> Round(A, D, ey - ex),
          intercept |-> Round(sy * D - A * sx, n * D, ey)]
    ELSE IF sx # 0
    THEN [exc |-> "",
          slope |-> Round(IF sx < 0 THEN -sy ELSE sy, 2 * Abs(sx), ey - ex),
          intercept |-> Round(sy, 2 * n, ey)]
    ELSE [exc |-> "LinAlgError", slope |-> NaN, intercept |-> NaN]

LeastSquares(n, sx, sy, sxx, sxy, ex, ey) ==
    Coefficients(n, sx, sy, n * sxy - sx * sy, n * sxx - sx * sx, ex, ey)

FitInts(n, X, Y) ==
    LeastSquares(n, IntSum(X.at, Ones(n), 1, 0), IntSum(Y.at, Ones(n), 1, 0),
                 IntSum(X.at, X.at, 1, 0), IntSum(X.at, Y.at, 1, 0), X.s, Y.s)

np_polyfit(flat_x, flat_y, lapack) ==
    IF \E i \in 1..Len(flat_x) : ~IsFinite(flat_x[i])
    THEN [exc |-> "LinAlgError", slope |-> NaN, intercept |-> NaN]
    ELSE IF \E i \in 1..Len(flat_y) : ~IsFinite(flat_y[i])
    THEN IF lapack = "diverges"
         THEN [exc |-> "LinAlgError", slope |-> NaN, intercept |-> NaN]
         ELSE [exc |-> "", slope |-> NaN, intercept |-> NaN]
    ELSE FitInts(Len(flat_x), Ints(flat_x), Ints(flat_y))

(***************************************************************************)
(* PlotEngine.plot_boxplot_regression                                      *)
(***************************************************************************)
\* An optional array argument: None, or the array.
None == [isNone |-> TRUE, vals |-> <<>>]
Some(vals) == [isNone |-> FALSE, vals |-> vals]

\* clean_group = [val for val in group if not np.isnan(val)]
KeepsValueAll(val) == TRUE
KeepsValue(val) == ~np_isnan(val)

RECURSIVE CleanGroup(_)
CleanGroup(group) ==
    IF group = <<>> THEN <<>>
    ELSE IF KeepsValue(Head(group)) THEN <<Head(group)>> \o CleanGroup(Tail(group))
    ELSE CleanGroup(Tail(group))

\* if x_positions is not None and i < len(x_positions):   (i counts from 0)
KeepsPosition(x_positions, i) == ~x_positions.isNone /\ i < Len(x_positions.vals)

\* valid_x_positions.append(x_positions[i]), for the group of input index i
\* when `kept` groups were kept before it.
PositionOfKept(x_positions, i, kept) == x_positions.vals[kept + 1]
PositionOf(x_positions, i, kept) == x_positions.vals[i + 1]

\* for i, group in enumerate(data_groups): ...   from the i-th group on, with
\* cleaned_groups and valid_x_positions as built so far.
RECURSIVE CleanFrom(_, _, _, _)
CleanFrom(data_groups, x_positions, i, acc) ==
    IF i >= Len(data_groups) THEN acc
    ELSE LET clean_group == CleanGroup(data_groups[i + 1])
         IN  CleanFrom(data_groups, x_positions, i + 1,
                IF Len(clean_group) > 0
                THEN [cleaned_groups |-> Append(acc.cleaned_groups, clean_group),
                      valid_x_positions |->
                          IF KeepsPosition(x_positions, i)
                          THEN Append(acc.valid_x_positions,
                                      PositionOf(x_positions, i, Len(acc.cleaned_groups)))
                          ELSE acc.valid_x_positions]
                ELSE acc)

Clean(data_groups, x_positions) ==
    CleanFrom(data_groups, x_positions, 0,
              [cleaned_groups |-> <<>>, valid_x_positions |-> <<>>])

\* use_positions = valid_x_positions if (x_positions is not None and
\*     len(valid_x_positions) == len(cleaned_groups)) else None
UsePositions(x_positions, valid_x_positions, cleaned_groups) ==
    IF ~x_positions.isNone /\ Len(valid_x_positions) = Len(cleaned_groups)
    THEN Some(valid_x_positions)
    ELSE None

\* flat_x.extend([pos] * len(group)); flat_y.extend(group)
RECURSIVE Flatten(_, _, _, _)
Flatten(cleaned_groups, use_positions, i, acc) ==
    IF i > Len(cleaned_groups) THEN acc
    ELSE Flatten(cleaned_groups, use_positions, i + 1,
            [flat_x |-> acc.flat_x \o [j \in 1..Len(cleaned_groups[i]) |-> use_positions[i]],
             flat_y |-> acc.flat_y \o cleaned_groups[i]])

\* r_squared = 1 - (ss_res / ss_tot) if ss_tot != 0 else 0.0
RSquared(ss_res, ss_tot) ==
    IF ss_tot # Zero THEN FSub(FromInt(1), FDiv(ss_res, ss_tot)) ELSE Zero

\* np.sum(v**2)
SumOfSquares(v) == np_sum([i \in 1..Len(v) |-> FMul(v[i], v[i])])

\* y_pred = slope * flat_x + intercept; residuals = flat_y - y_pred
Residuals(fit, flat_x, flat_y) ==
    [i \in 1..Len(flat_x) |->
        FSub(flat_y[i], FAdd(FMul(fit.slope, flat_x[i]), fit.intercept))]

\* flat_y - np.mean(flat_y)
Deviations(flat_y, mean) == [i \in 1..Len(flat_y) |-> FSub(flat_y[i], mean)]

Fitted(fit, flat_x, flat_y, ss_res, ss_tot) ==
    [exc |-> fit.exc, flat_x |-> flat_x, flat_y |-> flat_y,
     slope |-> fit.slope, intercept |-> fit.intercept,
     ss_res |-> ss_res, ss_tot |-> ss_tot,
     r_squared |-> RSquared(ss_res, ss_tot)]

RegressionOf(fit, flat_x, flat_y) ==
    Fitted(fit, flat_x, flat_y,
           SumOfSquares(Residuals(fit, flat_x, flat_y)),
           SumOfSquares(Deviations(flat_y, np_mean(flat_y))))

\* Lines 163-176: the fit and its R^2.
Regression(flat_x, flat_y, lapack) ==
    RegressionOf(np_polyfit(flat_x, flat_y, lapack), flat_x, flat_y)

DefaultRegStyle ==
    <<[key |-> "color", val |-> PyStr("red")],
      [key |-> "linestyle", val |-> PyStr("--")],
      [key |-> "linewidth", val |-> PyFloat("1.5")]>>

\* The font sizes ax.text accepts by name; any other str raises ValueError.
FontSizes == {"xx-small", "x-small", "small", "medium", "large", "x-large", "xx-large"}

\* reg_style = self._get_line_style(config, prefix="reg_")
\* if not reg_style: reg_style = {"color": "red", "linestyle": "--", "linewidth": 1.5}
RegStyle(style) == IF style = <<>> THEN DefaultRegStyle ELSE style

\* ax.plot(x_range, y_range, **reg_style), x_range from min(flat_x) to max(flat_x)
DrawLine(o, config, flat_x) ==
    [o EXCEPT !.regline = Append(@,
        [x_min |-> MinFrom(flat_x, 1, flat_x[1]),
         x_max |-> MaxFrom(flat_x, 1, flat_x[1]),
         style |-> RegStyle(get_line_style(config, "reg_").style)])]

\* ax.text(0.05, 0.95, stats_text, ..., fontsize=config.get("font_size", 10), ...)
AxText(o, font_size) ==
    IF font_size.k = "str" /\ font_size.s \notin FontSizes
    THEN Raise([o EXCEPT !.text = Append(@, [fontsize |-> font_size])], "ValueError")
    ELSE [o EXCEPT !.text = Append(@, [fontsize |-> font_size])]

\* if config.get("show_stats", True): ...
DrawStats(o, config) ==
    IF Truthy(DictGet(config, "show_stats", PyBool(TRUE)))
    THEN AxText(o, DictGet(config, "font_size", PyNum(10)))
    ELSE o

\* Lines 178-198: the regression line and the statistics text.
DrawRegression(o, config, r) == DrawStats(DrawLine(o, config, r.flat_x), config)

\* The fit r: an exception from np.polyfit leaves the call; otherwise draw.
AfterFit(o, config, r) ==
    IF r.exc # "" THEN Raise(o, r.exc)
    ELSE DrawRegression([o EXCEPT !.reg = Append(@, r)], config, r)

\* if len(flat_x) > 1: ...
FitIfSeveral(o, config, flat, lapack) ==
    IF ~(Len(flat.flat_x) > 1) THEN o
    ELSE AfterFit(o, config, Regression(flat.flat_x, flat.flat_y, lapack))

\* Lines 150-198.
RegressionStep(o, config, cleaned_groups, use_positions, lapack) ==
    IF ~Running(o) \/ use_positions.isNone THEN o
    ELSE FitIfSeveral(o, config,
                      Flatten(cleaned_groups, use_positions.vals, 1,
                              [flat_x |-> <<>>, flat_y |-> <<>>]),
                      lapack)

\* box_color = config.get("box_color"); if not box_color: box_color = "black"
BoxColor(given) == IF ~Truthy(given) THEN PyStr("black") ELSE given

AxBoxplot(o, cleaned_groups, use_positions, box_color, widths) ==
    IF widths.k \in {"str", "dict"}
    THEN Raise([o EXCEPT !.box = Append(@,
                   [groups |-> cleaned_groups, positions |-> use_positions,
                    color |-> box_color, widths |-> widths])], "TypeError")
    ELSE [o EXCEPT !.box = Append(@,
             [groups |-> cleaned_groups, positions |-> use_positions,
              color |-> box_color, widths |-> widths])]

\* Lines 136-148: ax.boxplot; a str given as widths is rejected by the library.
BoxplotStep(o, config, cleaned_groups, use_positions) ==
    AxBoxplot(o, cleaned_groups, use_positions,
              BoxColor(DictGet(config, "box_color", PyNone)),
              DictGet(config, "box_width", PyFloat("0.5")))

EmptyDataError == "Error: No valid data found (all NaNs or empty)"

\* if not cleaned_groups:
NoValidDataAtAll(data_groups, cleaned_groups) == data_groups = <<>>
NoValidData(data_groups, cleaned_groups) == cleaned_groups = <<>>

\* plt.close(fig); return "Error: ..."
EmptyDataExitLeaksFigure(o) == Return(o, EmptyDataError)
EmptyDataExit(o) == Return(CloseFig(o), EmptyDataError)

\* Lines 136-203, with the groups and positions that survived.
DrawBoxplot(o, config, cleaned_groups, use_positions, save_path, lapack) ==
    Finish(RegressionStep(BoxplotStep(o, config, cleaned_groups, use_positions),
                          config, cleaned_groups, use_positions, lapack),
           config, save_path)

AfterClean(o, config, data_groups, x_positions, c, save_path, lapack) ==
    IF NoValidData(data_groups, c.cleaned_groups) THEN EmptyDataExit(o)
    ELSE IF config.k # "dict" THEN Raise(o, "AttributeError")
    ELSE DrawBoxplot(o, config, c.cleaned_groups,
                     UsePositions(x_positions, c.valid_x_positions, c.cleaned_groups),
                     save_path, lapack)

plot_boxplot_regression_with(loaded, data_groups, x_positions, save_path, lapack) ==
    IF loaded.exc # "" THEN Raise(Fresh, loaded.exc)
    ELSE AfterClean([Subplots(Fresh) EXCEPT !.config = loaded.config], loaded.config,
                    data_groups, x_positions, Clean(data_groups, x_positions),
                    save_path, lapack)

plot_boxplot_regression(data_groups, x_positions, json_config, save_path, lapack) ==
    plot_boxplot_regression_with(LoadConfig(json_config), data_groups, x_positions,
                                 save_path, lapack)

(***************************************************************************)
(* PlotEngine.plot_colormap                                                *)
(***************************************************************************)
\* The colormaps imshow accepts by name; any other str raises ValueError.
Colormaps == {"viridis", "plasma", "inferno", "magma", "gray", "jet", "hot"}

\* Lines 217-225: plot_extent and origin_mode.
Extent(x_vec, y_vec) ==
    IF (~x_vec.isNone /\ Len(x_vec.vals) > 1) /\ (~y_vec.isNone /\ Len(y_vec.vals) > 1)
    THEN [plot_extent |-> Some(<<x_vec.vals[1], x_vec.vals[Len(x_vec.vals)],
                                 y_vec.vals[1], y_vec.vals[Len(y_vec.vals)]>>),
          origin_mode |-> "lower"]
    ELSE [plot_extent |-> None, origin_mode |-> "upper"]

\* im = ax.imshow(matrix, cmap=cmap_name, aspect='auto', interpolation='nearest',
\*                extent=plot_extent, origin=origin_mode)
AxImshow(o, matrix, cmap_name, ext) ==
    IF cmap_name.k # "null" /\ ~(cmap_name.k = "str" /\ cmap_name.s \in Colormaps)
    THEN Raise([o EXCEPT !.image = Append(@,
                   [matrix |-> matrix, cmap |-> cmap_name,
                    extent |-> ext.plot_extent, origin |-> ext.origin_mode])],
               "ValueError")
    ELSE [o EXCEPT !.image = Append(@,
             [matrix |-> matrix, cmap |-> cmap_name,
              extent |-> ext.plot_extent, origin |-> ext.origin_mode])]

\* if config.get("show_colorbar", True): fig.colorbar(im, ax=ax, label=config.get("zlabel", ""))
Colorbar(o, config) ==
    IF Running(o) /\ Truthy(DictGet(config, "show_colorbar", PyBool(TRUE)))
    THEN [o EXCEPT !.colorbar = Append(@, [label |-> DictGet(config, "zlabel", PyStr(""))])]
    ELSE o

\* Lines 227-240: ax.imshow and fig.colorbar.
ImageStep(o, config, matrix, x_vec, y_vec) ==
    Colorbar(AxImshow(o, matrix, DictGet(config, "cmap", PyStr("viridis")),
                      Extent(x_vec, y_vec)),
             config)

ColormapBody(o, config, data_2d, x_vec, y_vec, save_path) ==
    IF config.k # "dict" THEN Raise(o, "AttributeError")
    ELSE Finish(ImageStep(o, config, data_2d, x_vec, y_vec), config, save_path)

plot_colormap_with(loaded, data_2d, x_vec, y_vec, save_path) ==
    IF loaded.exc # "" THEN Raise(Fresh, loaded.exc)
    ELSE ColormapBody([Subplots(Fresh) EXCEPT !.config = loaded.config], loaded.config,
                      data_2d, x_vec, y_vec, save_path)

plot_colormap(data_2d, x_vec, y_vec, json_config, save_path) ==
    plot_colormap_with(LoadConfig(json_config), data_2d, x_vec, y_vec, save_path)

(***************************************************************************)
(* The wrappers for LabVIEW                                                *)
(***************************************************************************)
call_plot_line(x_array, y_array, json_config, path) ==
    plot_line(x_array, y_array, json_config, path)

call_plot_multi_line(x_array, y_data_2d, json_config, path) ==
    plot_multi_line(x_array, y_data_2d, json_config, path)

\* if len(data_groups) == 0: return "Error: No Data"
call_plot_boxplot_regression(data_groups, x_positions, json_config, path, lapack) ==
    IF Len(data_groups) = 0 THEN Return(Fresh, "Error: No Data")
    ELSE plot_boxplot_regression(data_groups, x_positions, json_config, path, lapack)

\* if len(x_vec) == 0: x_vec = None      (len(None) raises TypeError)
\* if len(y_vec) == 0: y_vec = None
NoneIfEmpty(vec) == IF Len(vec.vals) = 0 THEN None ELSE vec

call_plot_colormap(data_2d, x_vec, y_vec, json_config, path) ==
    IF x_vec.isNone \/ y_vec.isNone THEN Raise(Fresh, "TypeError")
    ELSE plot_colormap(data_2d, NoneIfEmpty(x_vec), NoneIfEmpty(y_vec), json_config, path)

(***************************************************************************)
(* The engine and its callers                                              *)
(***************************************************************************)
VARIABLES
    style_config,   \* the argument PlotEngine was constructed with
    style,          \* engine.style
    open_figs,      \* figures created by plt.subplots and not yet closed
    files,          \* the paths savefig has written
    all_returned,   \* every call so far returned a status string
    call,           \* the last call: the entry point and its arguments
    out             \* what the last call did

vars == <<style_config, style, open_figs, files, all_returned, call, out>>

NoArgs ==
    [op |-> "", json_config |-> JsonNone, path |-> "", lapack |-> "",
     x_data |-> <<>>, y_data |-> <<>>, data_groups |-> <<>>, x_positions |-> None,
     data_2d |-> <<>>, x_vec |-> None, y_vec |-> None]

\* PlotEngine.__init__
Construct(arg) ==
    /\ style_config = arg
    /\ style = arg
    /\ open_figs = 0
    /\ files = {}
    /\ all_returned = TRUE
    /\ call = NoArgs
    /\ out = Fresh

\* One call, from entry to the return or to the exception leaving it.
Do(c, o) ==
    /\ call' = c
    /\ out' = o
    /\ open_figs' = open_figs + o.opened - o.closed
    /\ files' = IF o.saved THEN files \cup {c.path} ELSE files
    /\ all_returned' = (all_returned /\ o.ret # "")
    /\ UNCHANGED <<style_config, style>>

Args(op, json_config, path) ==
    [NoArgs EXCEPT !.op = op, !.json_config = json_config, !.path = path]

PlotLine(x_data, y_data, json_config, path) ==
    Do([Args("plot_line", json_config, path) EXCEPT !.x_data = x_data, !.y_data = <<y_data>>],
       plot_line(x_data, y_data, json_config, path))

CallPlotLine(x_data, y_data, json_config, path) ==
    Do([Args("call_plot_line", json_config, path)
            EXCEPT !.x_data = x_data, !.y_data = <<y_data>>],
       call_plot_line(x_data, y_data, json_config, path))

PlotMultiLine(x_data, y_data_2d, json_config, path) ==
    Do([Args("plot_multi_line", json_config, path)
            EXCEPT !.x_data = x_data, !.y_data = y_data_2d],
       plot_multi_line(x_data, y_data_2d, json_config, path))

CallPlotMultiLine(x_data, y_data_2d, json_config, path) ==
    Do([Args("call_plot_multi_line", json_config, path)
            EXCEPT !.x_data = x_data, !.y_data = y_data_2d],
       call_plot_multi_line(x_data, y_data_2d, json_config, path))

PlotBoxplotRegression(data_groups, x_positions, json_config, path, lapack) ==
    Do([Args("plot_boxplot_regression", json_config, path)
            EXCEPT !.data_groups = data_groups, !.x_positions = x_positions,
                   !.lapack = lapack],
       plot_boxplot_regression(data_groups, x_positions, json_config, path, lapack))

CallPlotBoxplotRegression(data_groups, x_positions, json_config, path, lapack) ==
    Do([Args("call_plot_boxplot_regression", json_config, path)
            EXCEPT !.data_groups = data_groups, !.x_positions = x_positions,
                   !.lapack = lapack],
       call_plot_boxplot_regression(data_groups, x_positions, json_config, path, lapack))

PlotColormap(data_2d, x_vec, y_vec, json_config, path) ==
    Do([Args("plot_colormap", json_config, path)
            EXCEPT !.data_2d = data_2d, !.x_vec = x_vec, !.y_vec = y_vec],
       plot_colormap(data_2d, x_vec, y_vec, json_config, path))

CallPlotColormap(data_2d, x_vec, y_vec, json_config, path) ==
    Do([Args("call_plot_colormap", json_config, path)
            EXCEPT !.data_2d = data_2d, !.x_vec = x_vec, !.y_vec = y_vec],
       call_plot_colormap(data_2d, x_vec, y_vec, json_config, path))

(***************************************************************************)
(* The arguments the callers draw from                                     *)
(***************************************************************************)
\* All sequences over S of length at most n.
SeqsUpTo(S, n) == UNION {[1..k -> S] : k \in 0..n}

Styles == {PyNone, PyStr("ggplot")}
OutPath == "out.png"

\* How the LAPACK driver treats a non-finite right-hand side.
Lapacks == {"diverges", "nan"}

\* JSON texts: an object of the given members, and texts that are no JSON.
Member(key, val) == <<StrTok(key), Colon>> \o val
RECURSIVE Joined(_)
Joined(members) ==
    IF members = <<>> THEN <<>>
    ELSE IF Len(members) = 1 THEN members[1]
    ELSE members[1] \o <<Comma>> \o Joined(Tail(members))
Object(members) == JsonText(<<LBrace>> \o Joined(members) \o <<RBrace>>)
EmptyObject == Object(<<>>)

MalformedTexts ==
    {JsonText(<<>>),
     JsonText(<<LBrace>>),
     JsonText(<<RBrace>>),
     JsonText(<<LBrace, RBrace, RBrace>>),
     JsonText(<<LBrace, StrTok("title"), Colon, StrTok("T")>>),
     JsonText(<<LBrace, StrTok("title"), StrTok("T"), RBrace>>),
     JsonText(<<LBrace, StrTok("title"), Colon, StrTok("T"), Comma, RBrace>>),
     JsonText(<<LBrace, NumTok(1), Colon, NumTok(2), RBrace>>),
     JsonText(<<LBrace, StrTok("labels"), Colon, LBracket, StrTok("a"), RBrace>>),
     JsonText(<<Sym("title")>>)}

\* JSON texts whose value is no object.
NonObjectTexts ==
    {JsonText(<<NumTok(5)>>), JsonText(<<NullTok>>),
     JsonText(<<LBracket, RBracket>>), JsonText(<<StrTok("title")>>)}

(***************************************************************************)
(* SpecBox: boxplot + regression calls on a fresh engine.                  *)
(***************************************************************************)
MaxGroups == 2
MaxGroupLen == 2
MaxPosition == 3

BoxValues == {NaN, Inf, FromInt(1), FromInt(6)}
BoxGroups == SeqsUpTo(SeqsUpTo(BoxValues, MaxGroupLen), MaxGroups)
\* x_positions: None, a run 1, 2, ... shorter or longer than the groups, or
\* one position repeated.
BoxPositions ==
    {None}
    \cup {Some([i \in 1..k |-> FromInt(i)]) : k \in 0..(MaxGroups + 1)}
    \cup {Some([i \in 1..MaxGroups |-> FromInt(p)]) : p \in {0, MaxPosition}}
BoxConfigs ==
    {EmptyObject, JsonText(<<LBrace>>), JsonText(<<NumTok(5)>>),
     Object(<<Member("show_stats", <<FalseTok>>)>>)}

\* The driver's choice shows only when a group holds an infinity.
LapacksFor(data_groups) ==
    IF \E i \in 1..Len(data_groups) : \E j \in 1..Len(data_groups[i]) :
           data_groups[i][j] \in {Inf, NegInf}
    THEN Lapacks
    ELSE {"nan"}

FreshEngine == call.op = ""

InitBox == Construct(PyNone)

BoxDirect ==
    /\ FreshEngine
    /\ \E data_groups \in BoxGroups, x_positions \in BoxPositions,
          json_config \in BoxConfigs :
       \E lapack \in LapacksFor(data_groups) :
          PlotBoxplotRegression(data_groups, x_positions, json_config, OutPath, lapack)

BoxWrapped ==
    /\ FreshEngine
    /\ \E data_groups \in BoxGroups, x_positions \in BoxPositions,
          json_config \in BoxConfigs :
       \E lapack \in LapacksFor(data_groups) :
          CallPlotBoxplotRegression(data_groups, x_positions, json_config, OutPath, lapack)

NextBox == BoxDirect \/ BoxWrapped

SpecBox == InitBox /\ [][NextBox]_vars

(***************************************************************************)
(* SpecColormap: colormap calls on a fresh engine.                         *)
(***************************************************************************)
MaxVecLen == 3

Matrix == <<<<1, 2>>, <<3, 4>>>>
AxisVectors == {None} \cup {Some(v) : v \in SeqsUpTo({1, 2}, MaxVecLen)}
ColormapConfigs ==
    {EmptyObject, JsonText(<<LBrace>>), Object(<<Member("cmap", <<StrTok("gray")>>)>>),
     Object(<<Member("show_colorbar", <<FalseTok>>)>>)}

InitColormap == Construct(PyNone)

ColormapDirect ==
    /\ FreshEngine
    /\ \E x_vec \in AxisVectors, y_vec \in AxisVectors, json_config \in ColormapConfigs :
          PlotColormap(Matrix, x_vec, y_vec, json_config, OutPath)

ColormapWrapped ==
    /\ FreshEngine
    /\ \E x_vec \in AxisVectors, y_vec \in AxisVectors, json_config \in ColormapConfigs :
          CallPlotColormap(Matrix, x_vec, y_vec, json_config, OutPath)

NextColormap == ColormapDirect \/ ColormapWrapped

SpecColormap == InitColormap /\ [][NextColormap]_vars

(***************************************************************************)
(* SpecConfig: every rendering operation on a fresh engine, under configs  *)
(* of up to MaxMembers members, texts that are no JSON and texts that are  *)
(* no object.                                                              *)
(***************************************************************************)
MaxMembers == 2
MaxRows == 3

EmptyStr == <<StrTok("")>>
Members ==
    {Member("title", EmptyStr), Member("title", <<StrTok("T")>>),
     Member("ylim", EmptyStr), Member("ylim", <<LBracket, NumTok(0), Comma, NumTok(1), RBracket>>),
     Member("grid", EmptyStr),
     Member("figsize", EmptyStr),
     Member("figsize", <<LBrace, StrTok("width"), Colon, NumTok(2), Comma,
                         StrTok("height"), Colon, NumTok(1), RBrace>>),
     Member("show_legend", EmptyStr), Member("show_legend", <<TrueTok>>),
     Member("show_legend", <<FalseTok>>), Member("show_legend", <<NumTok(0)>>),
     Member("legend_loc", EmptyStr), Member("legend_loc", <<StrTok("upper left")>>),
     Member("labels", EmptyStr), Member("labels", <<LBracket, StrTok("a"), RBracket>>),
     Member("labels", <<LBracket, StrTok("a"), Comma, StrTok("b"), RBracket>>),
     Member("color", EmptyStr), Member("color", <<StrTok("red")>>),
     Member("color", <<NullTok>>),
     Member("linewidth", EmptyStr), Member("linewidth", <<NumTok(0)>>),
     Member("reg_color", EmptyStr), Member("reg_linewidth", <<NumTok(2)>>),
     Member("box_color", EmptyStr), Member("box_width", EmptyStr),
     Member("show_stats", EmptyStr), Member("font_size", EmptyStr),
     Member("cmap", EmptyStr), Member("cmap", <<StrTok("gray")>>),
     Member("show_colorbar", EmptyStr), Member("zlabel", EmptyStr)}

ConfigTexts ==
    {Object(members) : members \in SeqsUpTo(Members, MaxMembers)}
    \cup MalformedTexts \cup NonObjectTexts \cup {JsonNone}

XData == <<1, 2>>
\* y_data_2d: n rows, each unlike the others.
Rows(n) == [i \in 1..n |-> <<i, i + 1>>]
\* One row as long as x_data and one that is not.
YDatas == {<<1, 2>>, <<1>>}
\* Groups with a regression to draw, and groups with nothing to draw.
ConfigBoxGroups == {<<<<FromInt(6), FromInt(6)>>, <<FromInt(6)>>>>, <<<<NaN>>>>}
ConfigBoxPositions == Some(<<FromInt(1), FromInt(2)>>)
ConfigAxes == {None, Some(<<1, 2>>)}

InitConfig == Construct(PyNone)

ConfigLine ==
    /\ FreshEngine
    /\ \E y_data \in YDatas, json_config \in ConfigTexts :
          PlotLine(XData, y_data, json_config, OutPath)

ConfigLineWrapped ==
    /\ FreshEngine
    /\ \E y_data \in YDatas, json_config \in ConfigTexts :
          CallPlotLine(XData, y_data, json_config, OutPath)

ConfigMultiLine ==
    /\ FreshEngine
    /\ \E n \in 0..MaxRows, json_config \in ConfigTexts :
          PlotMultiLine(XData, Rows(n), json_config, OutPath)

ConfigMultiLineWrapped ==
    /\ FreshEngine
    /\ \E n \in 0..MaxRows, json_config \in ConfigTexts :
          CallPlotMultiLine(XData, Rows(n), json_config, OutPath)

ConfigBoxplot ==
    /\ FreshEngine
    /\ \E data_groups \in ConfigBoxGroups, json_config \in ConfigTexts :
          PlotBoxplotRegression(data_groups, ConfigBoxPositions, json_config, OutPath, "nan")

ConfigColormap ==
    /\ FreshEngine
    /\ \E axis \in ConfigAxes, json_config \in ConfigTexts :
          PlotColormap(Matrix, axis, axis, json_config, OutPath)

NextConfig ==
    \/ ConfigLine
    \/ ConfigLineWrapped
    \/ ConfigMultiLine
    \/ ConfigMultiLineWrapped
    \/ ConfigBoxplot
    \/ ConfigColormap

SpecConfig == InitConfig /\ [][NextConfig]_vars

(***************************************************************************)
(* SpecEngine: any sequence of calls on one engine, through the methods    *)
(* and through the wrappers, some returning and some raising.  A call that *)
(* raises leaves its figure open; MaxFigs bounds how many may pile up.     *)
(***************************************************************************)
MaxFigs == 2

EngineTexts ==
    {EmptyObject, JsonText(<<LBrace>>), JsonText(<<NumTok(5)>>),
     Object(<<Member("cmap", EmptyStr)>>)}
EngineGroups == {<<>>, <<<<NaN>>>>, <<<<FromInt(1), FromInt(6)>>>>}
EnginePaths == {OutPath, BadPath}

InitEngine == \E arg \in Styles : Construct(arg)

Room == open_figs < MaxFigs

EngineLine ==
    /\ Room
    /\ \E json_config \in EngineTexts, path \in EnginePaths :
          PlotLine(XData, XData, json_config, path)

EngineLineWrapped ==
    /\ Room
    /\ \E json_config \in EngineTexts, path \in EnginePaths :
          CallPlotLine(XData, XData, json_config, path)

EngineMultiLine ==
    /\ Room
    /\ \E json_config \in EngineTexts, path \in EnginePaths :
          PlotMultiLine(XData, Rows(2), json_config, path)

EngineMultiLineWrapped ==
    /\ Room
    /\ \E json_config \in EngineTexts, path \in EnginePaths :
          CallPlotMultiLine(XData, Rows(2), json_config, path)

EngineBoxplot ==
    /\ Room
    /\ \E data_groups \in EngineGroups, json_config \in EngineTexts, path \in EnginePaths :
          PlotBoxplotRegression(data_groups, ConfigBoxPositions, json_config, path, "nan")

EngineBoxplotWrapped ==
    /\ Room
    /\ \E data_groups \in EngineGroups, json_config \in EngineTexts, path \in EnginePaths :
          CallPlotBoxplotRegression(data_groups, ConfigBoxPositions, json_config, path, "nan")

EngineColormap ==
    /\ Room
    /\ \E axis \in ConfigAxes, json_config \in EngineTexts, path \in EnginePaths :
          PlotColormap(Matrix, axis, axis, json_config, path)

EngineColormapWrapped ==
    /\ Room
    /\ \E axis \in ConfigAxes, json_config \in EngineTexts, path \in EnginePaths :
          CallPlotColormap(Matrix, axis, axis, json_config, path)

NextEngine ==
    \/ EngineLine
    \/ EngineLineWrapped
    \/ EngineMultiLine
    \/ EngineMultiLineWrapped
    \/ EngineBoxplot
    \/ EngineBoxplotWrapped
    \/ EngineColormap
    \/ EngineColormapWrapped

SpecEngine == InitEngine /\ [][NextEngine]_vars

(***************************************************************************)
(* Properties of the boxplot + regression calls (SpecBox)                  *)
(***************************************************************************)
BoxOps == {"plot_boxplot_regression", "call_plot_boxplot_regression"}

\* The values of a group that are no NaN, and those that are finite.
IsNoNaN(val) == val.c # "nan"
IsFiniteValue(val) == val.c = "fin"
HasValues(group) == group # <<>>
NonNaNValues(group) == SelectSeq(group, IsNoNaN)
FiniteValues(group) == SelectSeq(group, IsFiniteValue)
\* Every group of the input is empty or NaN only (so is an input of no groups).
NothingValid(data_groups) ==
    \A i \in 1..Len(data_groups) : NonNaNValues(data_groups[i]) = <<>>

BoxDrawn == call.op \in BoxOps /\ out.box # <<>>

\* C1 as stated: when every input group is empty or NaN only, a boxplot +
\* regression call, through the method or through its wrapper, returns exactly
\* "Error: No valid data found (all NaNs or empty)" and writes no file.
C1_AsStated ==
    (call.op \in BoxOps /\ NothingValid(call.data_groups))
        => (out.ret = "Error: No valid data found (all NaNs or empty)"
            /\ ~out.saved /\ files = {})

\* C1, amended: when every input group is empty or NaN only, the call raises
\* nothing and writes no file; it returns "Error: No Data" when it is made
\* through the wrapper with no group at all, and otherwise exactly
\* "Error: No valid data found (all NaNs or empty)".
C1_EmptyDataReturnsError ==
    (call.op \in BoxOps /\ NothingValid(call.data_groups))
        => /\ out.exc = ""
           /\ ~out.saved
           /\ files = {}
           /\ out.box = <<>>
           /\ out.ret = IF call.op = "call_plot_boxplot_regression" /\ call.data_groups = <<>>
                        THEN "Error: No Data"
                        ELSE "Error: No valid data found (all NaNs or empty)"

\* A wrapper call on two groups, one empty and one of NaN only, with
\* positions, has returned the error string.
C1_Witness ==
    /\ call.op = "call_plot_boxplot_regression"
    /\ call.data_groups = <<<<>>, <<NaN, NaN>>>>
    /\ ~call.x_positions.isNone
    /\ out.ret = "Error: No valid data found (all NaNs or empty)"
    /\ out.opened = 1 /\ out.closed = 1

\* The regression of the call, when one was computed.
RegressionDone == call.op \in BoxOps /\ out.reg # <<>>
AllIdentical(flat_y) == \A i \in 1..Len(flat_y) : flat_y[i] = flat_y[1]
AllFinite(flat_y) == \A i \in 1..Len(flat_y) : IsFiniteValue(flat_y[i])

\* C6 as stated: when a regression is computed and all surviving y-values
\* are identical (and finite), the reported R^2 is exactly 0; when ss_tot is
\* nonzero, R^2 is 1 - ss_res/ss_tot.
C6_AsStated ==
    RegressionDone =>
        /\ (AllIdentical(out.reg[1].flat_y) /\ AllFinite(out.reg[1].flat_y))
               => out.reg[1].r_squared = Zero
        /\ out.reg[1].ss_tot # Zero
               => out.reg[1].r_squared
                      = FSub(FromInt(1), FDiv(out.reg[1].ss_res, out.reg[1].ss_tot))

\* C7 as stated: the groups handed to the boxplot are the finite values (no
\* NaN, no infinity) of the input groups that have any, in order.
C7_AsStated ==
    BoxDrawn =>
        out.box[1].groups
            = SelectSeq([i \in 1..Len(call.data_groups) |-> FiniteValues(call.data_groups[i])],
                        HasValues)

\* The values a group list carries, NaN among them or not.
NoNaNIn(flat_y) == \A i \in 1..Len(flat_y) : IsNoNaN(flat_y[i])

\* C7, amended: the groups handed to the boxplot are exactly the non-NaN
\* values (infinities included) of the input groups that have any, values
\* and groups in input order; no drawn group is empty, and no NaN reaches
\* the regression.
C7_DrawnGroupsAreTheNonNaNValues ==
    BoxDrawn =>
        /\ out.box[1].groups
               = SelectSeq([i \in 1..Len(call.data_groups) |-> NonNaNValues(call.data_groups[i])],
                           HasValues)
        /\ \A k \in 1..Len(out.box[1].groups) : out.box[1].groups[k] # <<>>
        /\ out.reg # <<>> => NoNaNIn(out.reg[1].flat_y)

\* A call whose first group is NaN only and whose second holds a NaN before
\* a finite value has drawn the one group of that value.
C7_Witness ==
    /\ BoxDrawn
    /\ call.data_groups = <<<<NaN>>, <<NaN, FromInt(6)>>>>
    /\ out.box[1].groups = <<<<FromInt(6)>>>>

\* The input indices (from 1) of the groups that survive cleaning, in order.
IsSurvivor(data_groups, i) == NonNaNValues(data_groups[i]) # <<>>
RECURSIVE SurvivorsFrom(_, _)
SurvivorsFrom(data_groups, i) ==
    IF i > Len(data_groups) THEN <<>>
    ELSE IF IsSurvivor(data_groups, i) THEN <<i>> \o SurvivorsFrom(data_groups, i + 1)
    ELSE SurvivorsFrom(data_groups, i + 1)
Survivors(data_groups) == SurvivorsFrom(data_groups, 1)
\* The survivors that have a position of their own.
Positioned(x_positions, survivors) ==
    SelectSeq(survivors, LAMBDA j : j <= Len(x_positions.vals))
\* Position k once for each value of the k-th drawn group.
RECURSIVE Repeated(_, _, _)
Repeated(groups, positions, k) ==
    IF k > Len(groups) THEN <<>>
    ELSE [j \in 1..Len(groups[k]) |-> positions[k]] \o Repeated(groups, positions, k + 1)

PositionsMatch(x_positions, survivors) ==
    /\ ~x_positions.isNone
    /\ Len(Positioned(x_positions, survivors)) = Len(survivors)

\* C8: the boxplot gets positions exactly when x_positions were given and
\* as many of them were kept as groups survived; the k-th position is then
\* the one of the k-th surviving group's input index, and a regression uses
\* each position once per value of its group.  Without positions the boxes
\* are drawn but no regression and no regression line.
C8_PositionsFollowSurvivors ==
    BoxDrawn =>
        /\ ~out.box[1].positions.isNone
               <=> PositionsMatch(call.x_positions, Survivors(call.data_groups))
        /\ ~out.box[1].positions.isNone
               => /\ out.box[1].positions.vals
                        = [k \in 1..Len(Survivors(call.data_groups)) |->
                              call.x_positions.vals[Survivors(call.data_groups)[k]]]
                  /\ out.reg # <<>>
                        => out.reg[1].flat_x
                              = Repeated(out.box[1].groups, out.box[1].positions.vals, 1)
        /\ out.box[1].positions.isNone
               => out.reg = <<>> /\ out.regline = <<>> /\ out.text = <<>>

\* The first of two groups was dropped and the second drawn at the second
\* position, which the regression used for both of its values.
C8_Witness ==
    /\ BoxDrawn
    /\ call.data_groups = <<<<NaN>>, <<FromInt(1), FromInt(6)>>>>
    /\ call.x_positions = Some(<<FromInt(1), FromInt(2), FromInt(3)>>)
    /\ out.box[1].positions = Some(<<FromInt(2)>>)
    /\ out.reg # <<>>
    /\ out.reg[1].flat_x = <<FromInt(2), FromInt(2)>>

(***************************************************************************)
(* Properties of the colormap calls (SpecColormap)                         *)
(***************************************************************************)
ColormapOps == {"plot_colormap", "call_plot_colormap"}

Supplied(vec) == ~vec.isNone /\ Len(vec.vals) >= 2
ExtentOf(x_vec, y_vec) ==
    <<x_vec.vals[1], x_vec.vals[Len(x_vec.vals)], y_vec.vals[1], y_vec.vals[Len(y_vec.vals)]>>

\* C4 as stated: every colormap call, through the method or its wrapper,
\* draws the image; with extent [x_vec[0], x_vec[-1], y_vec[0], y_vec[-1]]
\* and origin 'lower' when both vectors have length >= 2, and with no extent
\* and origin 'upper' when either vector is absent, empty or of length 1.
C4_AsStated ==
    call.op \in ColormapOps =>
        /\ Len(out.image) = 1
        /\ IF Supplied(call.x_vec) /\ Supplied(call.y_vec)
           THEN /\ out.image[1].extent = Some(ExtentOf(call.x_vec, call.y_vec))
                /\ out.image[1].origin = "lower"
           ELSE /\ out.image[1].extent = None
                /\ out.image[1].origin = "upper"

\* A wrapper call with x_vec absent has raised TypeError and drawn nothing.
C4_Witness ==
    /\ call.op = "call_plot_colormap"
    /\ call.x_vec = None
    /\ call.y_vec = Some(<<1, 2>>)
    /\ out.exc = "TypeError"
    /\ out.image = <<>>
    /\ out.opened = 0

(***************************************************************************)
(* Properties of the config handling (SpecConfig)                          *)
(***************************************************************************)
LineOps == {"plot_line", "call_plot_line"}
MultiLineOps == {"plot_multi_line", "call_plot_multi_line"}
RenderingOps == LineOps \cup MultiLineOps \cup BoxOps \cup ColormapOps

\* The call c made again as the method, with another config text.
Again(c, json_config) ==
    CASE c.op \in LineOps -> plot_line(c.x_data, c.y_data[1], json_config, c.path)
      [] c.op \in MultiLineOps -> plot_multi_line(c.x_data, c.y_data, json_config, c.path)
      [] c.op \in BoxOps ->
             plot_boxplot_regression(c.data_groups, c.x_positions, json_config, c.path, c.lapack)
      [] c.op \in ColormapOps ->
             plot_colormap(c.data_2d, c.x_vec, c.y_vec, json_config, c.path)

\* The call c made again with the config mapping given, already loaded.
AgainWith(c, config) ==
    CASE c.op \in LineOps ->
             plot_line_with([exc |-> "", config |-> config], c.x_data, c.y_data[1], c.path)
      [] c.op \in MultiLineOps ->
             plot_multi_line_with([exc |-> "", config |-> config], c.x_data, c.y_data, c.path)
      [] c.op \in BoxOps ->
             plot_boxplot_regression_with([exc |-> "", config |-> config], c.data_groups,
                                          c.x_positions, c.path, c.lapack)
      [] c.op \in ColormapOps ->
             plot_colormap_with([exc |-> "", config |-> config], c.data_2d, c.x_vec,
                                c.y_vec, c.path)

SavedIfSuccess(o, c) == o.ret = "Success" => (o.saved /\ c.path \in files)

\* C2: a call of any of the four rendering operations whose config text is
\* no valid JSON proceeds with the empty mapping: it does exactly what the
\* same call does with the text "{}", and where that one returns "Success"
\* it returns "Success" and has written the file.
C2_MalformedJsonIsEmptyConfig ==
    (call.op \in RenderingOps /\ call.json_config \in MalformedTexts)
        => /\ out.config = EmptyDict
           /\ out = Again(call, EmptyObject)
           /\ Again(call, EmptyObject).ret = "Success" => out.ret = "Success"
           /\ SavedIfSuccess(out, call)

\* A colormap call given the text "{" has written the file with the default
\* colormap and returned "Success".
C2_Witness ==
    /\ call.op = "plot_colormap"
    /\ call.json_config = JsonText(<<LBrace>>)
    /\ out.ret = "Success"
    /\ out.saved
    /\ OutPath \in files
    /\ out.image[1].cmap = PyStr("viridis")

RecognizedKeys ==
    {"title", "xlabel", "ylabel", "ylim", "xlim", "grid", "figsize", "show_legend",
     "legend_loc", "labels", "box_color", "box_width", "show_stats", "font_size",
     "cmap", "show_colorbar", "zlabel",
     "color", "linestyle", "linewidth", "marker", "alpha",
     "reg_color", "reg_linestyle", "reg_linewidth", "reg_marker", "reg_alpha"}

Without(config, key) == PyDict(SelectSeq(config.items, LAMBDA e : e.key # key))

\* What the plotting library received in a call: everything the call did but
\* the config it loaded; a text or a grid set to "" is a text or a grid left
\* at the library's default.
IsSet(entry) == entry.val # PyStr("")
Received(o) == [o EXCEPT !.config = PyNone, !.layout = SelectSeq(@, IsSet)]

EmptyStringAt(config, key) == DictHas(config, key) /\ DictItem(config, key) = PyStr("")

\* C3 as stated: in every rendering call with a recognized key set to the
\* empty string, the plotting library receives what it receives when the
\* key is absent from the config.
C3_AsStated ==
    (call.op \in RenderingOps /\ out.config.k = "dict")
        => \A key \in RecognizedKeys :
               EmptyStringAt(out.config, key)
                   => Received(out) = Received(AgainWith(call, Without(out.config, key)))

\* A colormap call with "cmap" set to "" has handed "" to imshow.
C3_Witness ==
    /\ call.op = "plot_colormap"
    /\ out.config = PyDict(<<[key |-> "cmap", val |-> PyStr("")]>>)
    /\ out.image[1].cmap = PyStr("")

\* The labels of the config, a list or absent.
LabelsGiven(config) ==
    /\ config.k = "dict"
    /\ DictHas(config, "labels") => DictItem(config, "labels").k = "list"
LabelList(config) ==
    IF DictHas(config, "labels") THEN DictItem(config, "labels").items ELSE <<>>
LineNames == <<"Line 1", "Line 2", "Line 3", "Line 4", "Line 5", "Line 6">>
LabelFor(labels, i) == IF i < Len(labels) THEN labels[i + 1].val ELSE PyStr(LineNames[i + 1])

\* C5: a multi-line call of n series that renders, under a config whose
\* "labels" is a list of m entries (or absent, m = 0), draws exactly n
\* series, in row order, series i (from 0) labelled labels[i] when i < m
\* and "Line {i+1}" when i >= m.
C5_LabelsThenGeneratedNames ==
    (call.op \in MultiLineOps /\ out.ret = "Success" /\ LabelsGiven(out.config))
        => /\ Len(out.plots) = Len(call.y_data)
           /\ \A i \in 0..(Len(call.y_data) - 1) :
                  /\ out.plots[i + 1].y = call.y_data[i + 1]
                  /\ out.plots[i + 1].x = call.x_data
                  /\ out.plots[i + 1].label = LabelFor(LabelList(out.config), i)

\* Three series under one label: the first carries it, the others are
\* "Line 2" and "Line 3".
C5_Witness ==
    /\ call.op = "plot_multi_line"
    /\ out.ret = "Success"
    /\ Len(call.y_data) = 3
    /\ Len(LabelList(out.config)) = 1
    /\ out.plots[1].label = PyStr("a")
    /\ out.plots[2].label = PyStr("Line 2")
    /\ out.plots[3].label = PyStr("Line 3")

FalsyValues ==
    {PyNone, PyBool(FALSE), PyNum(0), PyStr(""), PyList(<<>>), EmptyDict}
ShowLegendTruthy(config) ==
    DictHas(config, "show_legend") /\ DictItem(config, "show_legend") \notin FalsyValues

\* C9: a call that renders shows a legend (once), in plot_multi_line, exactly
\* when the config has no "show_legend" key or a truthy one, and in the
\* other three operations exactly when it has a truthy one.
C9_LegendDefaults ==
    (call.op \in RenderingOps /\ out.ret = "Success")
        => /\ Len(out.legend) <= 1
           /\ out.legend # <<>>
                  <=> IF call.op \in MultiLineOps
                      THEN ~DictHas(out.config, "show_legend") \/ ShowLegendTruthy(out.config)
                      ELSE ShowLegendTruthy(out.config)

\* A multi-line call under a config without "show_legend" has shown the
\* legend at the default place.
C9_Witness ==
    /\ call.op = "plot_multi_line"
    /\ out.ret = "Success"
    /\ out.config.k = "dict"
    /\ ~DictHas(out.config, "show_legend")
    /\ DictHas(out.config, "title")
    /\ out.legend = <<PyStr("best")>>

(***************************************************************************)
(* Properties of sequences of calls on one engine (SpecEngine)             *)
(***************************************************************************)
\* C10: while every call made so far has returned a status string, no
\* figure is open and engine.style is the value given at construction; and
\* a call that returns has closed the figure it opened.
C10_NothingCarriedOver ==
    /\ all_returned => (open_figs = 0 /\ style = style_config)
    /\ out.ret # "" => out.opened = out.closed

\* After a call that wrote a file, a boxplot call has returned the
\* empty-data error, all calls so far having returned.
C10_Witness ==
    /\ all_returned
    /\ files # {}
    /\ call.op = "plot_boxplot_regression"
    /\ out.ret = "Error: No valid data found (all NaNs or empty)"
    /\ out.opened = 1
    /\ open_figs = 0
    /\ style = PyStr("ggplot")
====
